---------------------------- MODULE Spec2Model ----------------------------
(***************************************************************************)
(* Daily puzzle generation of the tally / keel repository.                *)
(*                                                                         *)
(* Spec models api/cron/generate-game.ts: the cron handler, generateForMode*)
(* with its trivia retry loop, selectRandomShip (count, sample at offset,  *)
(* one retry), the query builder, the used_ships and game_data tables.     *)
(* The knowledge graph, the encyclopedia, the image host and the database  *)
(* are the environment: each await is one step, and the environment may    *)
(* fail or change between steps.  SpecDays runs the handler several times *)
(* over a small graph, SpecScript runs the script pipeline with its file   *)
(* tracker, SpecRows runs parseShipResult on the rows of one candidate,    *)
(* SpecPixels runs the pixel loop of generateLineArtFromUrl on one pixel,  *)
(* and SpecArt runs the pipeline from the sample query to the silhouette   *)
(* several times over one snapshot.  SpecGame models the game in the       *)
(* browser, App.tsx with useModeCompletion and localStorage, and SpecBatch *)
(* the same game with two selections delivered to one render.              *)
(***************************************************************************)
EXTENDS Integers, Sequences, FiniteSets, TLC

(***************************************************************************)
(* Bounds of the model.                                                    *)
(***************************************************************************)
\* entities of the knowledge graph are 1..NumIds
NumIds == 13
\* Math.random() is drawn from {0/RandRes, ..., (RandRes-1)/RandRes}
RandRes == 2
\* handler invocations in one behaviour of SpecDays
MaxRuns == 2
\* the entities 1..NumVolatile are being edited by third parties
NumVolatile == 2
\* entities of the knowledge graph in SpecDays are 1..DaysIds
DaysIds == 4
\* game dates are 1..NumDates
NumDates == 2

(***************************************************************************)
(* Program constants.                                                      *)
(***************************************************************************)
MAX_RETRIES == 10
\* ModeConfig.yearMin / yearMax: number | null
NoBound == -1
\* SelectedShip | null
NoShip == 0
\* selectRandomShip: count while the count query has not answered
NoCount == -1

Ids == 1..NumIds
Dates == 1..NumDates

(***************************************************************************)
(* Game mode configuration (three of the six modes: one with a lower year  *)
(* bound only, one with both bounds, one with none).                       *)
(***************************************************************************)
GAME_MODES ==
  [main    |-> [id |-> "main", yearMin |-> 1980, yearMax |-> NoBound,
                shipTypes |-> {"Q174736", "Q182531", "Q17205", "Q104843",
                               "Q161705", "Q170013", "Q2811", "Q2607934"}],
   ww2     |-> [id |-> "ww2", yearMin |-> 1939, yearMax |-> 1945,
                shipTypes |-> {"Q174736", "Q182531", "Q17205", "Q104843",
                               "Q161705", "Q170013", "Q2811"}],
   carrier |-> [id |-> "carrier", yearMin |-> NoBound, yearMax |-> NoBound,
                shipTypes |-> {"Q17205"}]]

ALL_MODE_IDS == <<"main", "ww2", "carrier">>
BONUS_MODE_IDS == <<"ww2", "carrier">>
ModeIds == {"main", "ww2", "carrier"}

(***************************************************************************)
(* The knowledge graph.  An entity has a type (P31), a commissioning year  *)
(* (P729), possibly an English article, and the sample query returns one   *)
(* row per combination of its optional one-to-many values.                 *)
(***************************************************************************)
TypeOf(e) == IF e \in {1, 2} THEN "Q17205" ELSE "Q174736"
YearOf(e) == CASE e = 1 -> 1985
               [] e = 2 -> 1942
               [] e = 3 -> 1943
               [] OTHER -> 1990
\* ?article is OPTIONAL: every fourth entity has no English article
HasArticle(e) == e % 4 # 0
\* rows of the sample query for one entity (OPTIONAL conflict / operator joins)
RowsOf(e) == IF e % 3 = 0 THEN 2 ELSE 1

(***************************************************************************)
(* CandidateQueryBuilder.  A query is the record of what its text says.    *)
(***************************************************************************)
buildYearFilter(mode) ==
  IF mode.yearMin # NoBound /\ mode.yearMax # NoBound
    THEN [lo |-> mode.yearMin, hi |-> mode.yearMax]
  ELSE IF mode.yearMin # NoBound
    THEN [lo |-> mode.yearMin, hi |-> NoBound]
  ELSE IF mode.yearMax # NoBound
    THEN [lo |-> NoBound, hi |-> mode.yearMax]
  ELSE [lo |-> NoBound, hi |-> NoBound]

buildCountQuery(excl, mode) ==
  [kind |-> "count", types |-> mode.shipTypes, year |-> buildYearFilter(mode),
   notIn |-> excl, offset |-> 0]

\* a sample query built without its exclusion filter
buildShipQuery_NoExclude(excl, off, mode) ==
  [kind |-> "sample", types |-> mode.shipTypes, year |-> buildYearFilter(mode),
   notIn |-> {}, offset |-> off]

buildShipQuery(excl, off, mode) ==
  [kind |-> "sample", types |-> mode.shipTypes, year |-> buildYearFilter(mode),
   notIn |-> excl, offset |-> off]

\* no query sent yet
NoQuery ==
  [kind |-> "none", types |-> {}, year |-> [lo |-> NoBound, hi |-> NoBound],
   notIn |-> {}, offset |-> 0]

(***************************************************************************)
(* What the endpoint answers to a query over the graph g (a set of         *)
(* entities that have an image, a date, a class, a size and a label).      *)
(* The endpoint is not transactional: each query is answered from the      *)
(* snapshot of the moment, in which entities under edit may be missing.    *)
(***************************************************************************)
Snapshots(g) == {g \ D : D \in SUBSET (1..NumVolatile)}

YearOk(f, y) == /\ (f.lo = NoBound \/ y >= f.lo)
                /\ (f.hi = NoBound \/ y <= f.hi)

Matches(q, g) ==
  {e \in g : /\ TypeOf(e) \in q.types
             /\ YearOk(q.year, YearOf(e))
             /\ e \notin q.notIn}

\* SELECT (COUNT(DISTINCT ?ship) AS ?count)
EvalCount(q, g) == Cardinality(Matches(q, g))

\* the result rows of the entities S, as <<entity, row of the entity>>
RowsIn(S) == {r \in S \X (1..2) : r[2] <= RowsOf(r[1])}

\* ORDER BY ?shipLabel: labels are in the order of the ids
RowBefore(a, b) == a[1] < b[1] \/ (a[1] = b[1] /\ a[2] < b[2])

\* LIMIT 1 OFFSET n: the entity of the row that has n rows before it, if any
EvalSample(q, g) ==
  LET R == RowsIn(Matches(q, g))
      hit == {r \in R : Cardinality({x \in R : RowBefore(x, r)}) = q.offset}
  IN IF hit = {} THEN <<>> ELSE <<(CHOOSE r \in hit : TRUE)[1]>>

\* the bindings of a query that the endpoint answered with 200
executeSparql(q, g) ==
  IF q.kind = "count" THEN <<EvalCount(q, g)>> ELSE EvalSample(q, g)


(***************************************************************************)
(* Clue functions.                                                         *)
(***************************************************************************)
\* what the summary endpoint can answer: null (non-2xx or network error), or
\* a summary whose extract is empty, has no sentence end, one sentence, two
\* sentences, or two sentences the second with a keyword
Extracts == {"empty", "nosentence", "one", "two", "twoKeyword"}
Summaries == {[ok |-> FALSE, extract |-> "empty", description |-> FALSE]} \cup
             [ok : {TRUE}, extract : Extracts, description : BOOLEAN]

NumSentences(x) == CASE x \in {"empty", "nosentence"} -> 0
                     [] x = "one" -> 1
                     [] OTHER -> 2

\* the trivia sentence, or "null"
extractTrivia(summary) ==
  IF ~summary.ok \/ summary.extract = "empty" THEN "null"
  ELSE IF summary.extract = "twoKeyword" THEN "keywordSentence"
  ELSE IF NumSentences(summary.extract) > 1 THEN "secondSentence"
  ELSE IF summary.description THEN "description"
  ELSE "null"

(***************************************************************************)
(* State.                                                                  *)
(***************************************************************************)
VARIABLES
  graph,            \* the eligible entities of the knowledge graph
  used_ships,       \* table used_ships: mode -> set of wikidata_id
  game_data,        \* table game_data: the set of rows [game_date, mode, ship_id]
  pc,               \* where the handler is suspended
  budget,           \* handler invocations still to come
  gameDate,         \* handler: gameDate
  modesToGenerate,  \* handler: modes still to generate
  results,          \* handler: results
  response,         \* the last response sent
  modeId,           \* generateForMode: mode.id
  excludeIds,       \* generateForMode: excludeIds
  attempt,          \* generateForMode: attempt
  ship,             \* generateForMode: ship (its id)
  trivia,           \* generateForMode: clues.trivia
  summaryLog,       \* history: what fetchWikipediaSummary gave the last fetchClues
  artLog,           \* history: what generateLineArtFromUrl met in this attempt
  count,            \* selectRandomShip: count
  offset,           \* selectRandomShip: offset / newOffset
  countQuery,       \* history: the count query of this Counting phase
  sampleLog,        \* history: sample queries of this Counting phase
  drawLog,          \* history: Math.random() results of this Counting phase
  clueCalls,        \* history: fetchClues calls of this category attempt
  fetches,          \* history: summary requests of this category attempt
  usedIds,          \* generateForMode: usedIds
  served,           \* history: mode -> ids of the successful generations
  attemptRec,       \* history: the current or last category attempt
  usedFile,         \* data/used-ships-{mode}.json: mode -> ids in the file
  outFile,          \* public/game-data-{mode}.json: mode -> ship (NoShip: none)
  runAll,           \* index.ts main: all
  unitPc,           \* which function is run on its own, and whether it returned
  results_,         \* parseShipResult: results (the rows of one candidate)
  selected,         \* parseShipResult: the fields of the SelectedShip returned
  origAlpha,        \* generateLineArtFromUrl, pixel loop: origAlpha
  edgeVal,          \* generateLineArtFromUrl, pixel loop: edgeVal
  rgba,             \* generateLineArtFromUrl, pixel loop: the pixel's bytes in rgba
  silhouettes,      \* history: the pipeline runs made over one snapshot
  today,            \* the browser's clock: getToday()
  localStorage,     \* localStorage item tally-daily-completion
  completion,       \* useModeCompletion: completion
  currentMode,      \* App: currentMode
  gameData,         \* App: gameData (the aircraft id; NoAircraft: null)
  guessResults,     \* App: guessResults
  isGameComplete,   \* App: isGameComplete
  isWin,            \* App: isWin
  isRevealing,      \* App: isRevealing
  winRevealStep,    \* App: winRevealStep
  completionSavedRef, \* App: completionSavedRef.current
  recordedOn        \* history: mode -> the day markComplete was last called for it

vars == <<graph, used_ships, game_data, pc, budget, gameDate,
          modesToGenerate, results, response, modeId, excludeIds, attempt,
          ship, trivia, summaryLog, artLog, count, offset, countQuery,
          sampleLog, drawLog,
          clueCalls, fetches,
          usedIds, served, attemptRec, usedFile, outFile, runAll,
          unitPc, results_, selected, origAlpha, edgeVal, rgba, silhouettes,
          today, localStorage, completion, currentMode, gameData,
          guessResults, isGameComplete, isWin, isRevealing, winRevealStep,
          completionSavedRef, recordedOn>>

envVars == <<graph>>
handlerVars == <<graph, used_ships, game_data, pc, budget, gameDate,
                 modesToGenerate, results, response, modeId, excludeIds,
                 attempt, ship, trivia, summaryLog, artLog, count, offset,
                 countQuery,
                 sampleLog, drawLog, clueCalls, fetches, usedIds, served,
                 attemptRec, usedFile, outFile, runAll>>
rowsVars == <<results_, selected>>
pixelVars == <<origAlpha, edgeVal, rgba>>
artVars == <<silhouettes>>
appVars == <<gameData, guessResults, isGameComplete, isWin, isRevealing,
            winRevealStep, completionSavedRef>>
gameVars == <<today, localStorage, completion, currentMode, appVars, recordedOn>>
unitVars == <<unitPc, rowsVars, pixelVars, artVars, gameVars>>
dbVars == <<used_ships, game_data>>
fileVars == <<usedFile, outFile, runAll>>
selVars == <<count, offset, countQuery, sampleLog, drawLog>>
genVars == <<modeId, usedIds, excludeIds, attempt, ship, trivia, summaryLog,
            artLog>>
histVars == <<clueCalls, fetches>>

NoResponse == [status |-> 0, success |-> FALSE, results |-> <<>>]
\* sent: how often the query whose failure ended the attempt was sent
NoAttempt == [mode |-> "none", outcome |-> "none", saved |-> FALSE, sent |-> 0]
NoArt == [download |-> "none", decodes |-> "none", seg |-> "none",
          input |-> "none"]

\* Buffer.alloc: a zero-filled pixel
NoPixel == <<0, 0, 0, 0>>
NoSelected == [status |-> [text |-> "null", year |-> 0], decommissioned |-> 0,
               conflicts |-> <<>>]

\* no aircraft: gameData is null, or no game has ended
NoAircraft == 0
\* no entry of a mode in DailyCompletion.modes
NoResult == [isWin |-> FALSE, guessResults |-> <<>>, aircraftId |-> NoAircraft]
\* types/modes.ts, ALL_MODE_IDS: two of the four modes of the game
AppModeIds == {"main", "ww2"}
\* no Date: localStorage.getItem gives null, or no tab is open
NoDay == 0
\* DailyCompletion.modes without an entry
NoModes == [m \in AppModeIds |-> NoResult]
\* localStorage.getItem gives null
NoItem == [date |-> NoDay, modes |-> NoModes]

\* parseShipResult is not run on its own
RowsOff ==
  /\ results_ = <<>>
  /\ selected = NoSelected

\* the pixel loop is not run on its own
PixelsOff ==
  /\ origAlpha = 0
  /\ edgeVal = 0
  /\ rgba = NoPixel

\* no pipeline run is made on its own
ArtOff == silhouettes = <<>>

\* no browser tab is open
GameOff ==
  /\ today = NoDay
  /\ localStorage = NoItem
  /\ completion = NoItem
  /\ currentMode = "none"
  /\ gameData = NoAircraft
  /\ guessResults = <<>>
  /\ isGameComplete = FALSE
  /\ isWin = FALSE
  /\ isRevealing = FALSE
  /\ winRevealStep = 0
  /\ completionSavedRef = FALSE
  /\ recordedOn = [m \in AppModeIds |-> NoDay]

\* no function is run on its own
UnitsOff ==
  /\ unitPc = "off"
  /\ RowsOff
  /\ PixelsOff
  /\ ArtOff
  /\ GameOff

\* the handler before its first invocation
InitHandler ==
  /\ graph = Ids
  /\ budget = 1
  /\ used_ships = [m \in ModeIds |-> {}]
  /\ game_data = {}
  /\ pc = "idle"
  /\ gameDate = 0
  /\ modesToGenerate = <<>>
  /\ results = <<>>
  /\ response = NoResponse
  /\ modeId = "none"
  /\ excludeIds = {}
  /\ attempt = 0
  /\ ship = NoShip
  /\ trivia = "null"
  /\ summaryLog = "none"
  /\ artLog = NoArt
  /\ count = NoCount
  /\ offset = 0
  /\ countQuery = NoQuery
  /\ sampleLog = <<>>
  /\ drawLog = <<>>
  /\ clueCalls = 0
  /\ fetches = 0
  /\ usedIds = {}
  /\ served = [m \in ModeIds |-> {}]
  /\ attemptRec = NoAttempt
  /\ usedFile = [m \in ModeIds |-> {}]
  /\ outFile = [m \in ModeIds |-> NoShip]
  /\ runAll = FALSE

Init == InitHandler /\ UnitsOff


(***************************************************************************)
(* Database functions.                                                     *)
(***************************************************************************)
\* The ship ids of the rows of game_data for one date and one mode.
ArtifactsOf(date, mode) ==
  {r.ship_id : r \in {x \in game_data : x.game_date = date /\ x.mode = mode}}

\* The read without the WHERE mode = ... restriction.
getUsedShipIds_AllModes(dbOk, mode) ==
  IF dbOk THEN UNION {used_ships[m] : m \in ModeIds} ELSE {}

\* SELECT wikidata_id FROM used_ships WHERE mode = ...; [] when the query fails
getUsedShipIds(dbOk, mode) == IF dbOk THEN used_ships[mode] ELSE {}

\* INSERT ... ON CONFLICT (wikidata_id, mode) DO NOTHING
markShipUsed(id, mode) ==
  [used_ships EXCEPT ![mode] = used_ships[mode] \cup {id}]

\* The upsert with the conflict target of a table that is unique on game_date
\* alone: the new row replaces every row of the date.
saveGameData_DateKey(date, id, mode) ==
  {r \in game_data : r.game_date # date}
    \cup {[game_date |-> date, mode |-> mode, ship_id |-> id]}

\* INSERT INTO game_data (game_date, mode, ...) VALUES ...
\* ON CONFLICT (game_date, mode) DO UPDATE SET ...: the row of (date, mode)
\* is replaced, or inserted when there is none.
saveGameData(date, id, mode) ==
  {r \in game_data : ~(r.game_date = date /\ r.mode = mode)}
    \cup {[game_date |-> date, mode |-> mode, ship_id |-> id]}

(***************************************************************************)
(* selectRandomShip.                                                       *)
(***************************************************************************)
\* results.length === 0 ? 0 : parseInt(results[0].count.value, 10)
getEligibleShipCount(bindings) ==
  IF Len(bindings) = 0 THEN 0 ELSE bindings[1]

\* the id of the candidate built from the rows (NoShip stands for no rows,
\* where selectRandomShip does not call parseShipResult)
parseShipResult(rows) == IF Len(rows) = 0 THEN NoShip ELSE rows[1]

\* rounding up instead of down
RandomOffset_Ceil(k, n) == (k * n + RandRes - 1) \div RandRes

\* Math.floor(Math.random() * count), Math.random() = k / RandRes
RandomOffset(k, n) == (k * n) \div RandRes

\* retrying for as long as no row comes back
AfterSample_RetryAgain(got, isRetry) ==
  IF got # NoShip THEN "clues" ELSE "retry"

\* where selectRandomShip goes after a sample query answered got
AfterSample(got, isRetry) ==
  IF got # NoShip THEN "clues"
  ELSE IF ~isRetry THEN "retry"
  ELSE "empty"

\* sampling even when nothing was counted
AfterCount_NoZeroCheck(n) == "sample"

\* where selectRandomShip goes after the count query answered n
AfterCount(n) == IF n = 0 THEN "empty" ELSE "sample"

(***************************************************************************)
(* generateForMode and the handler.                                        *)
(***************************************************************************)
\* requiring trivia in every category
requireTrivia_Always(m) == TRUE

\* handler: const requireTrivia = modeId === 'main'
requireTrivia(m) == m = "main"

ErrEmpty == "No eligible ships found"
ErrExhausted == "No ship with trivia found after MAX_RETRIES attempts"
ErrLineArt == "Failed to generate line art"

Failure(m, err) == [success |-> FALSE, mode |-> m, error |-> err, ship |-> NoShip]
Success(m, id) == [success |-> TRUE, mode |-> m, error |-> "", ship |-> id]

\* the message of the failure after the loop
LoopExitError_Same(m) == ErrEmpty

LoopExitError(m) == IF requireTrivia(m) THEN ErrExhausted ELSE ErrEmpty

\* a loop that runs one attempt more
LoopContinues_OneMore(a) == a + 1 <= MAX_RETRIES + 1

\* for (attempt = 1; attempt <= MAX_RETRIES; attempt++): after attempt a
LoopContinues(a) == a + 1 <= MAX_RETRIES

\* the modes a request asks for: all=everything, all=true, mode=<id>, default
RequestedModes ==
  {ALL_MODE_IDS, BONUS_MODE_IDS} \cup {<<m>> : m \in ModeIds}

\* the locals of generateForMode and selectRandomShip are dead once the
\* function has returned or thrown: they go back to their initial values
ResetLocals ==
  /\ usedIds' = {}
  /\ excludeIds' = {}
  /\ attempt' = 0
  /\ ship' = NoShip
  /\ trivia' = "null"
  /\ summaryLog' = "none"
  /\ artLog' = NoArt
  /\ count' = NoCount
  /\ offset' = 0
  /\ countQuery' = NoQuery
  /\ sampleLog' = <<>>
  /\ drawLog' = <<>>
  /\ clueCalls' = 0
  /\ fetches' = 0

\* the selection is over: its locals and history are dead
ResetSelection ==
  /\ usedIds' = {}
  /\ excludeIds' = {}
  /\ attempt' = 0
  /\ count' = NoCount
  /\ offset' = 0
  /\ countQuery' = NoQuery
  /\ sampleLog' = <<>>
  /\ drawLog' = <<>>
  /\ clueCalls' = 0
  /\ fetches' = 0

\* generateForMode returned r: push it and go on with the next mode
Return(r) ==
  /\ results' = Append(results, r)
  /\ attemptRec' = [attemptRec EXCEPT !.outcome =
                      IF r.success THEN "success" ELSE "failed"]
  /\ pc' = "loop"

\* executeSparql: the fetches it makes before it throws
executeSparqlFetches == 1

\* an error escaped generateForMode: the handler's catch answers 500
ThrowAfter(sent) ==
  /\ response' = [status |-> 500, success |-> FALSE, results |-> <<>>]
  /\ attemptRec' = [attemptRec EXCEPT !.outcome = "threw", !.sent = sent]
  /\ pc' = "idle"
  /\ results' = <<>>
  /\ modesToGenerate' = <<>>
  /\ ResetLocals

\* an error of the database
Throw == ThrowAfter(0)

\* an error of executeSparql: the fetch was rejected or answered non-2xx
QueryThrow == ThrowAfter(executeSparqlFetches)

Handler ==
  /\ pc = "idle"
  /\ budget > 0
  /\ budget' = budget - 1
  /\ \E authorized \in BOOLEAN, date \in Dates, modes \in RequestedModes :
       IF ~authorized
         THEN /\ response' = [status |-> 401, success |-> FALSE, results |-> <<>>]
              /\ UNCHANGED <<pc, gameDate, modesToGenerate, results>>
         ELSE /\ response' = NoResponse
              /\ gameDate' = date
              /\ modesToGenerate' = modes
              /\ results' = <<>>
              /\ pc' = "loop"
  /\ attemptRec' = NoAttempt
  /\ UNCHANGED <<envVars, unitVars, fileVars, dbVars, genVars, selVars, histVars, served>>

\* the head of for (const modeId of modesToGenerate), and the summary after it
HandlerLoop ==
  /\ pc = "loop"
  /\ IF modesToGenerate = <<>>
       THEN /\ response' =
                 [status |-> 200,
                  success |-> \A i \in 1..Len(results) : results[i].success,
                  results |-> results]
            /\ pc' = "idle"
            /\ results' = <<>>
            /\ UNCHANGED <<modeId, modesToGenerate>>
       ELSE /\ modeId' = Head(modesToGenerate)
            /\ modesToGenerate' = Tail(modesToGenerate)
            /\ pc' = "getUsed"
            /\ UNCHANGED <<response, results>>
  /\ ResetLocals
  /\ UNCHANGED <<envVars, unitVars, fileVars, dbVars, budget, gameDate, served, attemptRec>>

\* generateForMode up to its loop: usedIds, excludeIds = [...usedIds]
LoadUsed ==
  /\ pc = "getUsed"
  /\ \E dbOk \in BOOLEAN : usedIds' = getUsedShipIds(dbOk, modeId)
  /\ excludeIds' = usedIds'
  /\ attempt' = 1
  /\ ship' = NoShip
  /\ trivia' = "null"
  /\ summaryLog' = "none"
  /\ clueCalls' = 0
  /\ fetches' = 0
  /\ countQuery' = NoQuery
  /\ sampleLog' = <<>>
  /\ drawLog' = <<>>
  /\ count' = NoCount
  /\ offset' = 0
  /\ attemptRec' = [mode |-> modeId, outcome |-> "running", saved |-> FALSE,
                    sent |-> 0]
  /\ pc' = "count"
  /\ UNCHANGED <<envVars, unitVars, fileVars, dbVars, budget, gameDate, modesToGenerate, results,
                 response, modeId, artLog, served>>

\* selectRandomShip: the count query, then the first offset; Thrown is what
\* the caller does with an error of executeSparql
CountStep(Thrown) ==
  /\ pc = "count"
  /\ \/ Thrown
     \/ \E g \in Snapshots(graph) :
          LET q == buildCountQuery(excludeIds, GAME_MODES[modeId])
              n == getEligibleShipCount(executeSparql(q, g)) IN
          /\ count' = n
          /\ countQuery' = q
          /\ sampleLog' = <<>>
          /\ IF AfterCount(n) = "empty"
               THEN /\ Return(Failure(modeId, ErrEmpty))
                    /\ drawLog' = <<>>
                    /\ UNCHANGED <<offset, response>>
               ELSE /\ \E k \in 0..(RandRes - 1) :
                         /\ offset' = RandomOffset(k, n)
                         /\ drawLog' = <<k>>
                    /\ pc' = "sample"
                    /\ UNCHANGED <<results, response, attemptRec>>
          /\ UNCHANGED <<modesToGenerate, genVars, histVars>>
  /\ UNCHANGED <<envVars, unitVars, fileVars, dbVars, budget, gameDate, modeId, served>>

\* selectRandomShip after the sample query q was answered from snapshot g
\* (isRetry: q is the second one)
Sampled(q, g, isRetry) ==
  LET got == parseShipResult(executeSparql(q, g))
      next == AfterSample(got, isRetry) IN
  /\ sampleLog' = Append(sampleLog, [query |-> q, got |-> got])
  /\ IF next = "clues"
       THEN /\ ship' = got
            /\ pc' = "clues"
            /\ UNCHANGED <<offset, drawLog, results, response, attemptRec>>
       ELSE IF next = "retry"
       THEN /\ \E k \in 0..(RandRes - 1) :
                 /\ offset' = RandomOffset(k, count)
                 /\ drawLog' = Append(drawLog, k)
            /\ pc' = "retry"
            /\ UNCHANGED <<ship, results, response, attemptRec>>
       ELSE /\ Return(Failure(modeId, ErrEmpty))
            /\ UNCHANGED <<ship, offset, drawLog, response>>

SampleStep(Thrown) ==
  /\ pc = "sample"
  /\ \/ Thrown
     \/ /\ \E g \in Snapshots(graph) :
             Sampled(buildShipQuery(excludeIds, offset, GAME_MODES[modeId]),
                     g, FALSE)
        /\ UNCHANGED <<modesToGenerate, usedIds, excludeIds, attempt, trivia,
                       summaryLog, artLog,
                       count, countQuery, histVars>>
  /\ UNCHANGED <<envVars, unitVars, fileVars, dbVars, budget, gameDate, modeId, served>>

RetryStep(Thrown) ==
  /\ pc = "retry"
  /\ \/ Thrown
     \/ /\ \E g \in Snapshots(graph) :
             Sampled(buildShipQuery(excludeIds, offset, GAME_MODES[modeId]),
                     g, TRUE)
        /\ UNCHANGED <<modesToGenerate, usedIds, excludeIds, attempt, trivia,
                       summaryLog, artLog,
                       count, countQuery, histVars>>
  /\ UNCHANGED <<envVars, unitVars, fileVars, dbVars, budget, gameDate, modeId, served>>


Count == CountStep(QueryThrow)
Sample == SampleStep(QueryThrow)
Retry == RetryStep(QueryThrow)

\* what fetchWikipediaSummary returned to fetchClues: "none" when the
\* candidate has no article and it is not called, "null" for a non-2xx answer
\* or a rejected fetch, "ok" for a summary
fetchWikipediaSummary(id, summary) ==
  IF ~HasArticle(id) THEN "none"
  ELSE IF summary.ok THEN "ok"
  ELSE "null"

\* fetchClues: the summary is requested only for a candidate with an article
fetchClues(id, summary) ==
  IF HasArticle(id) THEN extractTrivia(summary) ELSE "null"

\* requesting a summary for every candidate
SummaryRequests_Always(id) == 1

\* fetchClues: the requests it sends to the summary endpoint
SummaryRequests(id) == IF HasArticle(id) THEN 1 ELSE 0

\* going on without excluding the rejected candidate
Reject_Forget(excl, id) == excl

\* excludeIds.push(ship.id)
Reject(excl, id) == excl \cup {id}

\* generateForMode: fetchClues, then the check for trivia
FetchClues ==
  /\ pc = "clues"
  /\ clueCalls' = clueCalls + 1
  /\ fetches' = fetches + SummaryRequests(ship)
  /\ \E summary \in Summaries :
       LET t == fetchClues(ship, summary) IN
       IF ~requireTrivia(modeId) \/ t # "null"
         THEN /\ trivia' = t
              /\ summaryLog' = fetchWikipediaSummary(ship, summary)
              /\ pc' = "lineart"
              /\ UNCHANGED <<excludeIds, attempt, ship, results, attemptRec>>
         ELSE /\ excludeIds' = Reject(excludeIds, ship)
              /\ ship' = NoShip
              /\ trivia' = "null"
              /\ summaryLog' = "none"
              /\ IF LoopContinues(attempt)
                   THEN /\ attempt' = attempt + 1
                        /\ pc' = "count"
                        /\ UNCHANGED <<results, attemptRec>>
                   ELSE /\ Return(Failure(modeId, LoopExitError(modeId)))
                        /\ UNCHANGED attempt
  /\ UNCHANGED <<envVars, unitVars, fileVars, dbVars, budget, gameDate, modesToGenerate, response,
                 modeId, usedIds, artLog, selVars, served>>

(***************************************************************************)
(* generateLineArtFromUrl: download, preprocess, remove the background,    *)
(* detect edges.                                                           *)
(***************************************************************************)
\* downloadImage: the answer of the image host, or a rejected fetch
Downloads == {"ok", "non2xx", "rejected"}

\* sharp / photon on the downloaded bytes: decoded, or an error thrown
Decodes == {"ok", "throws"}

\* removeBackgroundWithAPI: no API key, a 2xx answer, a non-2xx answer
\* (quota exceeded is one), or a rejected fetch (network error, timeout)
Segmentations == {"nokey", "ok", "non2xx", "rejected"}

\* what the pipeline met: a step that is not reached is "none"
ArtRuns ==
  {r \in [download : Downloads, decodes : Decodes \cup {"none"},
          seg : Segmentations \cup {"none"}, input : {"none"}] :
     /\ (r.download = "ok") = (r.decodes # "none")
     /\ (r.decodes = "ok") = (r.seg # "none")}

\* removeBackgroundWithAPI that hands its input on when the fetch is rejected
removeBackgroundWithAPI_CatchAll(seg) ==
  IF seg = "ok" THEN "segmented" ELSE "normalized"

\* removeBackgroundWithAPI that reads the body of any answer as the image
removeBackgroundWithAPI_AnyBody(seg) ==
  IF seg = "nokey" THEN "normalized"
  ELSE IF seg = "rejected" THEN "throws"
  ELSE IF seg = "non2xx" THEN "errorBody"
  ELSE "segmented"

\* removeBackgroundWithAPI: the buffer it returns, or "throws"
removeBackgroundWithAPI(seg) ==
  IF seg = "nokey" THEN "normalized"
  ELSE IF seg = "rejected" THEN "throws"
  ELSE IF seg = "non2xx" THEN "normalized"
  ELSE "segmented"

\* downloadImage: the bytes, or "throws"
downloadImage(download) == IF download = "ok" THEN "bytes" ELSE "throws"

\* generateLineArtFromUrl: the buffer the edges are taken from, or "throws"
generateLineArtFromUrl(r) ==
  IF downloadImage(r.download) = "throws" THEN "throws"
  ELSE IF r.decodes # "ok" THEN "throws"
  ELSE removeBackgroundWithAPI(r.seg)

\* a catch that goes on to save the game without a silhouette
AfterLineArt_Swallow(out) == "save"

\* generateForMode: try { silhouette = ... } catch { return failure }
AfterLineArt(out) == IF out # "throws" THEN "save" ELSE "failed"

\* generateForMode: generateLineArtFromUrl inside try / catch
LineArt ==
  /\ pc = "lineart"
  /\ \E r \in ArtRuns :
       LET out == generateLineArtFromUrl(r) IN
       /\ artLog' = [r EXCEPT !.input = out]
       /\ IF AfterLineArt(out) = "save"
            THEN /\ pc' = "save"
                 /\ UNCHANGED <<results, attemptRec>>
            ELSE Return(Failure(modeId, ErrLineArt))
  /\ ResetSelection
  /\ UNCHANGED <<envVars, unitVars, fileVars, dbVars, budget, gameDate, modesToGenerate, response,
                 modeId, ship, trivia, summaryLog, served>>

\* generateGame: generateLineArtFromUrl of generate-lineart.ts inside
\* try / catch; the background is removed by a library, not by a service
ScriptLineArt ==
  /\ pc = "lineart"
  /\ \E r \in {x \in ArtRuns : x.seg \in {"none", "ok", "rejected"}} :
       LET out == generateLineArtFromUrl(r) IN
       /\ artLog' = [r EXCEPT !.input = out]
       /\ IF AfterLineArt(out) = "save"
            THEN /\ pc' = "save"
                 /\ UNCHANGED <<results, attemptRec>>
            ELSE Return(Failure(modeId, ErrLineArt))
  /\ ResetSelection
  /\ UNCHANGED <<envVars, unitVars, fileVars, dbVars, budget, gameDate, modesToGenerate, response,
                 modeId, ship, trivia, summaryLog, served>>

\* generateForMode: await saveGameData(gameData, mode.id)
Save ==
  /\ pc = "save"
  /\ \/ /\ Throw
        /\ UNCHANGED game_data
     \/ /\ game_data' = saveGameData(gameDate, ship, modeId)
        /\ attemptRec' = [attemptRec EXCEPT !.saved = TRUE]
        /\ pc' = "mark"
        /\ UNCHANGED <<results, response, modesToGenerate, genVars, selVars,
                       histVars>>
  /\ UNCHANGED <<envVars, unitVars, fileVars, used_ships, budget, gameDate, modeId, served>>

\* generateForMode: await markShipUsed(...), then the successful result
Mark ==
  /\ pc = "mark"
  /\ \/ /\ Throw
        /\ UNCHANGED <<used_ships, served>>
     \/ /\ used_ships' = markShipUsed(ship, modeId)
        /\ served' = [served EXCEPT ![modeId] = served[modeId] \cup {ship}]
        /\ Return(Success(modeId, ship))
        /\ UNCHANGED <<response, modesToGenerate, genVars, selVars, histVars>>
  /\ UNCHANGED <<envVars, unitVars, fileVars, game_data, budget, gameDate, modeId>>

Next ==
  \/ Handler
  \/ HandlerLoop
  \/ LoadUsed
  \/ Count
  \/ Sample
  \/ Retry
  \/ FetchClues
  \/ LineArt
  \/ Save
  \/ Mark

Spec == Init /\ [][Next]_vars

\* several handler invocations, on several dates, over a small graph
InitDays ==
  /\ graph = 1..DaysIds
  /\ budget = MaxRuns
  /\ used_ships = [m \in ModeIds |-> {}]
  /\ game_data = {}
  /\ pc = "idle"
  /\ gameDate = 0
  /\ modesToGenerate = <<>>
  /\ results = <<>>
  /\ response = NoResponse
  /\ modeId = "none"
  /\ usedIds = {}
  /\ excludeIds = {}
  /\ attempt = 0
  /\ ship = NoShip
  /\ trivia = "null"
  /\ summaryLog = "none"
  /\ artLog = NoArt
  /\ count = NoCount
  /\ offset = 0
  /\ countQuery = NoQuery
  /\ sampleLog = <<>>
  /\ drawLog = <<>>
  /\ clueCalls = 0
  /\ fetches = 0
  /\ served = [m \in ModeIds |-> {}]
  /\ attemptRec = NoAttempt
  /\ usedFile = [m \in ModeIds |-> {}]
  /\ outFile = [m \in ModeIds |-> NoShip]
  /\ runAll = FALSE
  /\ UnitsOff

SpecDays == InitDays /\ [][Next]_vars

(***************************************************************************)
(* The generator script: scripts/game-generator/src/index.ts with the      *)
(* file tracker used-ships.ts.  It shares the selector with the handler,   *)
(* has no trivia loop, writes public/game-data-{mode}.json and keeps the   *)
(* used ids of a mode in data/used-ships-{mode}.json.                      *)
(***************************************************************************)
\* loadUsedShips: the ids of the file; { ships: [] } when the file is
\* missing, cannot be read or cannot be parsed
loadUsedShips(readOk, mode) == IF readOk THEN usedFile[mode] ELSE {}

\* saveUsedShips: the file is written anew with data
saveUsedShips(mode, data) == [usedFile EXCEPT ![mode] = data]

\* used-ships.ts getUsedShipIds
getUsedShipIdsFile(readOk, mode) == loadUsedShips(readOk, mode)

\* the arguments of the script: --all, --mode=<id>, none
ScriptArgs == {[all |-> TRUE, mode |-> "main"]} \cup
              [all : {FALSE}, mode : ModeIds]

\* an error escaped generateGame: generateAllModes records the failure and
\* goes on, main().catch exits with 1
ScriptThrowAfter(sent) ==
  /\ attemptRec' = [attemptRec EXCEPT !.outcome = "threw", !.sent = sent]
  /\ IF runAll
       THEN /\ results' = Append(results, Failure(modeId, "error"))
            /\ pc' = "loop"
            /\ UNCHANGED <<response, modesToGenerate>>
       ELSE /\ response' = [status |-> 1, success |-> FALSE, results |-> <<>>]
            /\ pc' = "idle"
            /\ results' = <<>>
            /\ modesToGenerate' = <<>>
  /\ ResetLocals

\* an error of the file system
ScriptThrow == ScriptThrowAfter(0)

\* an error of executeSparql of select-ship.ts
ScriptQueryThrow == ScriptThrowAfter(executeSparqlFetches)

\* main: parseArgs, then generateAllModes or generateGame(mode || 'main')
Main ==
  /\ pc = "idle"
  /\ budget > 0
  /\ budget' = budget - 1
  /\ \E args \in ScriptArgs :
       /\ runAll' = args.all
       /\ modesToGenerate' = IF args.all THEN ALL_MODE_IDS ELSE <<args.mode>>
  /\ results' = <<>>
  /\ response' = NoResponse
  /\ attemptRec' = NoAttempt
  /\ pc' = "loop"
  /\ UNCHANGED <<envVars, unitVars, dbVars, gameDate, genVars, selVars, histVars,
                 served, usedFile, outFile>>

\* the head of for (const mode of ALL_MODE_IDS), and the exit code after it
ScriptLoop ==
  /\ pc = "loop"
  /\ IF modesToGenerate = <<>>
       THEN /\ response' =
                 [status |-> IF \A i \in 1..Len(results) : results[i].success
                               THEN 0 ELSE 1,
                  success |-> \A i \in 1..Len(results) : results[i].success,
                  results |-> results]
            /\ pc' = "idle"
            /\ results' = <<>>
            /\ UNCHANGED <<modeId, modesToGenerate>>
       ELSE /\ modeId' = Head(modesToGenerate)
            /\ modesToGenerate' = Tail(modesToGenerate)
            /\ pc' = "getUsed"
            /\ UNCHANGED <<response, results>>
  /\ ResetLocals
  /\ UNCHANGED <<envVars, unitVars, dbVars, fileVars, budget, gameDate, served,
                 attemptRec>>

\* generateGame: const usedIds = await getUsedShipIds(mode)
ScriptLoadUsed ==
  /\ pc = "getUsed"
  /\ \E readOk \in BOOLEAN : usedIds' = getUsedShipIdsFile(readOk, modeId)
  /\ excludeIds' = usedIds'
  /\ attempt' = 1
  /\ attemptRec' = [mode |-> modeId, outcome |-> "running", saved |-> FALSE,
                    sent |-> 0]
  /\ pc' = "count"
  /\ UNCHANGED <<envVars, unitVars, dbVars, fileVars, budget, gameDate, modesToGenerate,
                 results, response, modeId, ship, trivia, summaryLog, artLog,
                 selVars,
                 histVars,
                 served>>

ScriptCount == CountStep(ScriptQueryThrow)
ScriptSample == SampleStep(ScriptQueryThrow)
ScriptRetry == RetryStep(ScriptQueryThrow)

\* generateGame: const clues = await fetchClues(ship), kept whatever it has
ScriptFetchClues ==
  /\ pc = "clues"
  /\ clueCalls' = clueCalls + 1
  /\ fetches' = fetches + SummaryRequests(ship)
  /\ \E summary \in Summaries :
       /\ trivia' = fetchClues(ship, summary)
       /\ summaryLog' = fetchWikipediaSummary(ship, summary)
  /\ pc' = "lineart"
  /\ UNCHANGED <<envVars, unitVars, dbVars, fileVars, budget, gameDate, modesToGenerate,
                 results, response, modeId, usedIds, excludeIds, attempt, ship,
                 artLog, selVars, served, attemptRec>>

\* generateGame: await writeFile(outputPath, ...)
WriteOutput ==
  /\ pc = "save"
  /\ \/ /\ ScriptThrow
        /\ UNCHANGED outFile
     \/ /\ outFile' = [outFile EXCEPT ![modeId] = ship]
        /\ attemptRec' = [attemptRec EXCEPT !.saved = TRUE]
        /\ pc' = "mark"
        /\ UNCHANGED <<results, response, modesToGenerate, genVars, selVars,
                       histVars>>
  /\ UNCHANGED <<envVars, unitVars, dbVars, usedFile, runAll, budget, gameDate, modeId,
                 served>>

\* generateGame: await markShipUsed(ship.id, ship.name, mode) of used-ships.ts:
\* load, return if the id is there, else push and save
ScriptMark ==
  /\ pc = "mark"
  /\ \E readOk \in BOOLEAN :
       LET data == loadUsedShips(readOk, modeId) IN
       IF ship \in data
         THEN /\ Return(Success(modeId, ship))
              /\ served' = [served EXCEPT ![modeId] = served[modeId] \cup {ship}]
              /\ UNCHANGED <<usedFile, response, modesToGenerate, genVars,
                             selVars, histVars>>
         ELSE \/ /\ ScriptThrow
                 /\ UNCHANGED <<usedFile, served>>
              \/ /\ usedFile' = saveUsedShips(modeId, data \cup {ship})
                 /\ served' = [served EXCEPT
                                 ![modeId] = served[modeId] \cup {ship}]
                 /\ Return(Success(modeId, ship))
                 /\ UNCHANGED <<response, modesToGenerate, genVars, selVars,
                                histVars>>
  /\ UNCHANGED <<envVars, unitVars, dbVars, outFile, runAll, budget, gameDate, modeId>>

NextScript ==
  \/ Main
  \/ ScriptLoop
  \/ ScriptLoadUsed
  \/ ScriptCount
  \/ ScriptSample
  \/ ScriptRetry
  \/ ScriptFetchClues
  \/ ScriptLineArt
  \/ WriteOutput
  \/ ScriptMark

\* several runs of the script over a small graph
SpecScript == InitDays /\ [][NextScript]_vars

(***************************************************************************)
(* generateLineArtFromUrl, the loop over the pixels, run on one pixel: its *)
(* alpha in the image after background removal and its value in the edge   *)
(* image are bytes of raw 8-bit buffers.                                   *)
(***************************************************************************)
Bytes == 0..255

\* Math.min
min(a, b) == IF a < b THEN a ELSE b

\* a gate that looks at the edge value only
edgeDetected_NoAlphaGate(alpha, edge) == edge < 180

\* if (origAlpha > 128 && edgeVal < 180)
edgeDetected(alpha, edge) == alpha > 128 /\ edge < 180

\* an opacity that grows with the edge value
lineOpacity_Rising(edge) == min(255, edge * 2)

\* Math.min(255, (180 - edgeVal) * 2)
lineOpacity(edge) == min(255, (180 - edge) * 2)

\* the four bytes of the pixel after the loop body; a byte written to the
\* buffer is kept modulo 256
pixel(alpha, edge) ==
  IF edgeDetected(alpha, edge)
    THEN <<0, 0, 0, lineOpacity(edge) % 256>>
    ELSE NoPixel

InitPixels ==
  /\ InitHandler
  /\ unitPc = "pixel"
  /\ RowsOff
  /\ ArtOff
  /\ GameOff
  /\ origAlpha \in Bytes
  /\ edgeVal \in Bytes
  /\ rgba = NoPixel

\* one turn of the loop
PixelLoop ==
  /\ unitPc = "pixel"
  /\ rgba' = pixel(origAlpha, edgeVal)
  /\ unitPc' = "painted"
  /\ UNCHANGED <<handlerVars, rowsVars, artVars, gameVars, origAlpha, edgeVal>>

NextPixels == PixelLoop

\* the pixel loop over every pair of an alpha and an edge value
SpecPixels == InitPixels /\ [][NextPixels]_vars

(***************************************************************************)
(* parseShipResult, run on the rows of one candidate.  A row binds the     *)
(* optional variables ?statusLabel, ?decommissioned and ?conflictLabel; a  *)
(* label that is looked into is the sequence of its characters, and an     *)
(* unbound or empty one is the empty sequence.                             *)
(***************************************************************************)
GulfWar == <<"G", "u", "l", "f", " ", "W", "a", "r">>
WorldWarII == <<"W", "o", "r", "l", "d", " ", "W", "a", "r", " ", "I", "I">>
IraqWar == <<"I", "r", "a", "q", " ", "W", "a", "r">>
ConflictLabels == {GulfWar, WorldWarII, IraqWar}

\* no ?decommissioned in the row; a bound one is the year of the date and
\* whether the date is the first instant of that year in UTC
NoYear == 0
NoDate == [year |-> NoYear, newYearUTC |-> FALSE]
DecommissionedValues == {NoDate, [year |-> 1991, newYearUTC |-> TRUE]}

Rows == [statusLabel : {"null", "in service"},
         decommissioned : DecommissionedValues,
         conflictLabel : {<<>>} \cup ConflictLabels]

\* String.prototype.toLowerCase on the characters that occur
lowerChar(c) == CASE c = "G" -> "g"
                  [] c = "I" -> "i"
                  [] c = "W" -> "w"
                  [] OTHER -> c
toLowerCase(s) == [i \in 1..Len(s) |-> lowerChar(s[i])]

\* String.prototype.includes
includes(s, t) ==
  \E i \in 1..(Len(s) - Len(t) + 1) : SubSeq(s, i, i + Len(t) - 1) = t

\* Date.prototype.getFullYear: the year in local time, which west of UTC is
\* the year before for the first instant of a year
getFullYear(date, west) ==
  IF west /\ date.newYearUTC THEN date.year - 1 ELSE date.year

\* Set.prototype.add, the set kept in insertion order
add(set, value) ==
  IF \E i \in 1..Len(set) : set[i] = value THEN set ELSE Append(set, value)

\* an aggregation that looks at the first row only
conflicts_FirstRow(rows) ==
  IF rows[1].conflictLabel # <<>> THEN <<rows[1].conflictLabel>> ELSE <<>>

\* const conflicts = new Set(); for (const row of results) ...
RECURSIVE conflicts(_)
conflicts(rows) ==
  IF rows = <<>> THEN <<>>
  ELSE LET before == conflicts(SubSeq(rows, 1, Len(rows) - 1))
           row == rows[Len(rows)] IN
       IF row.conflictLabel # <<>> THEN add(before, row.conflictLabel)
       ELSE before

\* const decommissioned = first.decommissioned?.value ? ... : null
decommissioned(first, west) ==
  IF first.decommissioned # NoDate
    THEN getFullYear(first.decommissioned, west)
    ELSE NoYear

\* conflictArray.filter(...)
recentConflicts(conflictArray) ==
  SelectSeq(conflictArray,
            LAMBDA c :
              LET lower == toLowerCase(c) IN
              \/ includes(lower, <<"i", "r", "a", "q">>)
              \/ includes(lower, <<"a", "f", "g", "h", "a", "n">>)
              \/ includes(lower, <<"g", "u", "l", "f">>)
              \/ includes(lower, <<"s", "y", "r", "i", "a">>)
              \/ includes(lower, <<"2", "0", "0", "0">>)
              \/ includes(lower, <<"2", "0", "1", "0">>)
              \/ includes(lower, <<"2", "0", "2", "0">>))

\* the status with the decommissioning year ahead of the status label
status_YearFirst(first, year, conflictArray) ==
  IF year # NoYear
    THEN [text |-> "Decommissioned", year |-> year]
  ELSE IF first.statusLabel # "null"
    THEN [text |-> first.statusLabel, year |-> NoYear]
  ELSE IF Len(recentConflicts(conflictArray)) > 0
    THEN [text |-> "Active or recently active", year |-> NoYear]
  ELSE [text |-> "null", year |-> NoYear]

\* let status = null; if (first.statusLabel?.value) ... else if
\* (decommissioned) ... else ...; `Decommissioned ${decommissioned}` is the
\* text with the year
status(first, year, conflictArray) ==
  IF first.statusLabel # "null"
    THEN [text |-> first.statusLabel, year |-> NoYear]
  ELSE IF year # NoYear
    THEN [text |-> "Decommissioned", year |-> year]
  ELSE IF Len(recentConflicts(conflictArray)) > 0
    THEN [text |-> "Active or recently active", year |-> NoYear]
  ELSE [text |-> "null", year |-> NoYear]

\* the fields status, decommissioned and conflicts of the SelectedShip
parseShipFields(rows, west) ==
  LET first == rows[1]
      year == decommissioned(first, west) IN
  [status |-> status(first, year, conflicts(rows)),
   decommissioned |-> year,
   conflicts |-> conflicts(rows)]

\* rows of one candidate given to parseShipResult
MaxRows == 3

InitRows ==
  /\ InitHandler
  /\ unitPc = "rows"
  /\ results_ \in UNION {[1..n -> Rows] : n \in 1..MaxRows}
  /\ selected = NoSelected
  /\ PixelsOff
  /\ ArtOff
  /\ GameOff

\* parseShipResult(results), in some time zone
ParseShipResult ==
  /\ unitPc = "rows"
  /\ \E west \in BOOLEAN : selected' = parseShipFields(results_, west)
  /\ unitPc' = "parsed"
  /\ UNCHANGED <<handlerVars, results_, pixelVars, artVars, gameVars>>

NextRows == ParseShipResult

\* parseShipResult over every sequence of up to MaxRows rows
SpecRows == InitRows /\ [][NextRows]_vars

(***************************************************************************)
(* The pipeline from the sample query to the silhouette, run several times *)
(* over one snapshot of the graph: selectRandomShip's sample at an offset, *)
(* then generateLineArtFromUrl on the candidate's image.  A silhouette is  *)
(* the image it was drawn from and the buffer the edges were taken from.   *)
(***************************************************************************)
\* pipeline runs over one snapshot
MaxArtRuns == 2
\* offsets a run is made at
MaxArtOffset == 1

\* no silhouette: generateLineArtFromUrl threw
NoSilhouette == [image |-> NoShip, edgesOf |-> "throws"]

\* generateLineArtFromUrl(ship.imageUrl): the base64 of the line art
silhouette(id, r) ==
  LET out == generateLineArtFromUrl(r) IN
  IF out = "throws" THEN NoSilhouette ELSE [image |-> id, edgesOf |-> out]

InitArt ==
  /\ InitHandler
  /\ unitPc = "art"
  /\ RowsOff
  /\ PixelsOff
  /\ GameOff
  /\ silhouettes = <<>>

\* one run: the sample query at the offset, parseShipResult, the line art
PipelineRun ==
  /\ unitPc = "art"
  /\ Len(silhouettes) < MaxArtRuns
  /\ \E m \in ModeIds, off \in 0..MaxArtOffset, r \in ArtRuns :
       LET id == parseShipResult(
                   executeSparql(buildShipQuery({}, off, GAME_MODES[m]), graph))
       IN /\ id # NoShip
          /\ silhouettes' = Append(silhouettes,
                                   [mode |-> m, offset |-> off, ship |-> id,
                                    met |-> r, silhouette |-> silhouette(id, r)])
  /\ UNCHANGED <<handlerVars, unitPc, rowsVars, pixelVars, gameVars>>

NextArt == PipelineRun

\* pipeline runs over the snapshot in which every entity is present
SpecArt == InitArt /\ [][NextArt]_vars

(***************************************************************************)
(* The game in the browser: App of App.tsx with the hook useModeCompletion *)
(* in one tab.  React state is the state of the last render; the effects   *)
(* of a render run in the order of their declaration, each on the values   *)
(* of that render, and the state they set is rendered in turn until        *)
(* nothing changes.  An event is delivered to the handlers of the last     *)
(* render.  A ModeResult is kept without guessCount and timeTaken.         *)
(***************************************************************************)
\* const totalTurns = 5
totalTurns == 5
\* const maxSteps = 4
maxSteps == 4
\* calendar days (UTC) the tab lives through
NumDays == 2
\* aircraft a game can be about
NumAircraft == 2

Days == 1..NumDays
Aircraft == 1..NumAircraft

\* the state of the component and of the hook, as one record
AppState ==
  [gameData |-> gameData, guessResults |-> guessResults,
   isGameComplete |-> isGameComplete, isWin |-> isWin,
   isRevealing |-> isRevealing, winRevealStep |-> winRevealStep,
   completionSavedRef |-> completionSavedRef, completion |-> completion,
   localStorage |-> localStorage, recordedOn |-> recordedOn]

\* the state is s after the step
Rendered(s) ==
  /\ gameData' = s.gameData
  /\ guessResults' = s.guessResults
  /\ isGameComplete' = s.isGameComplete
  /\ isWin' = s.isWin
  /\ isRevealing' = s.isRevealing
  /\ winRevealStep' = s.winRevealStep
  /\ completionSavedRef' = s.completionSavedRef
  /\ completion' = s.completion
  /\ localStorage' = s.localStorage
  /\ recordedOn' = s.recordedOn

\* loadCompletion: the stored item, or an empty completion if there is none
\* or it is of another day
loadCompletion(stored, day) ==
  IF stored = NoItem THEN [date |-> day, modes |-> NoModes]
  ELSE IF stored.date # day THEN [date |-> day, modes |-> NoModes]
  ELSE stored

\* useModeCompletion: isComplete
isComplete(s, mode) == s.completion.modes[mode] # NoResult

\* useModeCompletion: result
result(s, mode) == s.completion.modes[mode]

\* markComplete: setCompletion(prev => ...) with saveCompletion(updated)
markComplete(s, mode, modeResult, day) ==
  LET updated == [date |-> day,
                  modes |-> [s.completion.modes EXCEPT ![mode] = modeResult]]
  IN [s EXCEPT !.completion = updated, !.localStorage = updated,
               !.recordedOn = [s.recordedOn EXCEPT ![mode] = day]]

\* useModeCompletion, effect on [mode]: setCompletion(loadCompletion())
syncEffect(s, day) ==
  [s EXCEPT !.completion = loadCompletion(s.localStorage, day)]

\* App, effect on [currentMode]: reset game state when mode changes
resetEffect(s) ==
  [s EXCEPT !.gameData = NoAircraft, !.guessResults = <<>>,
            !.isGameComplete = FALSE, !.isWin = FALSE,
            !.winRevealStep = 0, !.isRevealing = FALSE,
            !.completionSavedRef = FALSE]

\* App, effect: save completion to localStorage when game ends; r is the
\* render the effect belongs to, s the state set so far
saveEffect(r, s, mode, day) ==
  IF /\ r.isGameComplete
     /\ ~s.completionSavedRef
     /\ ~isComplete(r, mode)
     /\ r.gameData # NoAircraft
    THEN markComplete([s EXCEPT !.completionSavedRef = TRUE], mode,
                      [isWin |-> r.isWin, guessResults |-> r.guessResults,
                       aircraftId |-> r.gameData],
                      day)
    ELSE s

\* App, effect: restore completed state if same aircraft was already played
restoreEffect(r, s, mode) ==
  IF /\ r.gameData # NoAircraft
     /\ isComplete(r, mode)
     /\ result(r, mode).aircraftId = r.gameData
    THEN [s EXCEPT !.isGameComplete = TRUE,
                   !.isWin = result(r, mode).isWin,
                   !.guessResults = result(r, mode).guessResults,
                   !.completionSavedRef = TRUE]
    ELSE s

\* the effects of the render r whose mode is that of the render before
Effects(r, mode, day) == restoreEffect(r, saveEffect(r, r, mode, day), mode)

\* render and run effects until the state is the one rendered
RECURSIVE Settle(_, _, _)
Settle(r, mode, day) ==
  LET s == Effects(r, mode, day) IN
  IF s = r THEN r ELSE Settle(s, mode, day)

\* a turn limit that lets one more guess in
lastTurn_OneMore(n) == n + 1 > totalTurns

\* guessResults.length + 1 >= totalTurns
lastTurn(n) == n + 1 >= totalTurns

\* handleAircraftSelect of the render c, called on the state s set so far
handleAircraftSelect(c, s, isCorrect) ==
  IF c.gameData = NoAircraft \/ c.isGameComplete THEN s
  ELSE LET added == Append(s.guessResults,
                           IF isCorrect THEN "correct" ELSE "wrong") IN
       IF isCorrect
         THEN [s EXCEPT !.guessResults = added, !.isWin = TRUE,
                        !.isGameComplete = TRUE, !.isRevealing = TRUE,
                        !.winRevealStep = 0]
       ELSE IF lastTurn(Len(c.guessResults))
         THEN [s EXCEPT !.guessResults = added, !.isGameComplete = TRUE]
       ELSE [s EXCEPT !.guessResults = added]

\* const currentTurn = guessResults.length + 1
currentTurn == Len(guessResults) + 1

\* a reveal that is one turn early
getClueRevealed_Early(clueIndex) ==
  IF isWin /\ ~isRevealing THEN TRUE
  ELSE IF isWin /\ isRevealing THEN winRevealStep >= clueIndex
  ELSE currentTurn >= clueIndex

\* getClueRevealed
getClueRevealed(clueIndex) ==
  IF isWin /\ ~isRevealing THEN TRUE
  ELSE IF isWin /\ isRevealing THEN winRevealStep >= clueIndex
  ELSE currentTurn >= clueIndex + 1

\* the prop revealed (showPhoto) of the clue scheduled for turn k:
\* getClueRevealed(k - 1) || currentTurn >= k
revealed(k) == getClueRevealed(k - 1) \/ currentTurn >= k

\* AircraftSearch is rendered: the data is loaded and the game is not over
SearchRendered == gameData # NoAircraft /\ ~isGameComplete

\* the tab is opened on day 1 with nothing stored: the first render of App
InitGame ==
  /\ InitHandler
  /\ unitPc = "game"
  /\ RowsOff
  /\ PixelsOff
  /\ ArtOff
  /\ today = 1
  /\ localStorage = NoItem
  /\ completion = loadCompletion(NoItem, 1)
  /\ currentMode \in AppModeIds
  /\ gameData = NoAircraft
  /\ guessResults = <<>>
  /\ isGameComplete = FALSE
  /\ isWin = FALSE
  /\ isRevealing = FALSE
  /\ winRevealStep = 0
  /\ completionSavedRef = FALSE
  /\ recordedOn = [m \in AppModeIds |-> NoDay]

notGame == <<handlerVars, unitPc, rowsVars, pixelVars, artVars>>

\* loadGameData: the game the server has for the mode is set as gameData
LoadGameData ==
  /\ unitPc = "game"
  /\ gameData = NoAircraft
  /\ \E a \in Aircraft :
       Rendered(Settle([AppState EXCEPT !.gameData = a], currentMode, today))
  /\ UNCHANGED <<notGame, today, currentMode>>

\* AircraftSearch calls onSelect once, and the component is rendered again
Select ==
  /\ unitPc = "game"
  /\ SearchRendered
  /\ \E isCorrect \in BOOLEAN :
       Rendered(Settle(handleAircraftSelect(AppState, AppState, isCorrect),
                       currentMode, today))
  /\ UNCHANGED <<notGame, today, currentMode>>

\* onSelect is called twice before the component is rendered again
SelectTwice ==
  /\ unitPc = "game"
  /\ SearchRendered
  /\ \E first, second \in BOOLEAN :
       LET s == handleAircraftSelect(AppState, AppState, first) IN
       Rendered(Settle(handleAircraftSelect(AppState, s, second),
                       currentMode, today))
  /\ UNCHANGED <<notGame, today, currentMode>>

\* the timer of the sequential reveal effect on win fires
RevealTick ==
  /\ unitPc = "game"
  /\ isRevealing
  /\ IF winRevealStep >= maxSteps
       THEN isRevealing' = FALSE /\ UNCHANGED winRevealStep
       ELSE winRevealStep' = winRevealStep + 1 /\ UNCHANGED isRevealing
  /\ UNCHANGED <<notGame, today, localStorage, completion, currentMode,
                 gameData, guessResults, isGameComplete, isWin,
                 completionSavedRef, recordedOn>>

\* handleModeSelect: navigate to the path of another mode.  App stays
\* mounted; the first render with the new mode has the state of the old
\* game, and its effects run in the order of their declaration
Navigate ==
  /\ unitPc = "game"
  /\ \E mode \in AppModeIds \ {currentMode} :
       LET r == AppState
           s == restoreEffect(r,
                  saveEffect(r, resetEffect(syncEffect(r, today)), mode, today),
                  mode)
       IN /\ currentMode' = mode
          /\ Rendered(Settle(s, mode, today))
  /\ UNCHANGED <<notGame, today>>

\* the page is loaded again, on the path of any mode
Reload ==
  /\ unitPc = "game"
  /\ \E mode \in AppModeIds :
       /\ currentMode' = mode
       /\ Rendered(resetEffect(syncEffect(AppState, today)))
  /\ UNCHANGED <<notGame, today>>

\* midnight UTC passes while the tab is open
Midnight ==
  /\ unitPc = "game"
  /\ today < NumDays
  /\ today' = today + 1
  /\ UNCHANGED <<notGame, localStorage, completion, currentMode, appVars,
                 recordedOn>>

NextGame ==
  \/ LoadGameData
  \/ Select
  \/ RevealTick
  \/ Navigate
  \/ Reload
  \/ Midnight

\* the game, every selection rendered before the next is delivered
SpecGame == InitGame /\ [][NextGame]_vars

NextBatch ==
  \/ LoadGameData
  \/ Select
  \/ SelectTwice
  \/ RevealTick
  \/ Navigate

\* the game within one day and one page load, with two selections delivered
\* to the handler of one render
SpecBatch == InitGame /\ [][NextBatch]_vars

TypeOK ==
  /\ graph \subseteq Ids
  /\ pc \in {"idle", "loop", "getUsed", "count", "sample", "retry", "clues",
             "lineart", "save", "mark"}
  /\ excludeIds \subseteq Ids
  /\ ship \in Ids \cup {NoShip}
  /\ attempt \in 0..MAX_RETRIES
  /\ summaryLog \in {"none", "null", "ok"}
  /\ unitPc \in {"off", "pixel", "painted", "rows", "parsed", "art", "game"}
  /\ origAlpha \in Bytes /\ edgeVal \in Bytes
  /\ rgba \in Bytes \X Bytes \X Bytes \X Bytes
  /\ game_data \subseteq [game_date : Dates, mode : ModeIds, ship_id : Ids]
  /\ today \in Days \cup {NoDay}
  /\ gameData \in Aircraft \cup {NoAircraft}
  /\ winRevealStep \in 0..maxSteps
  /\ \A i \in 1..Len(guessResults) : guessResults[i] \in {"correct", "wrong"}
  /\ localStorage.date \in Days \cup {NoDay}
  /\ completion.date \in Days \cup {NoDay}

(***************************************************************************)
(* Properties of the candidate selector.                                   *)
(***************************************************************************)
\* the selection history of the category attempt is in the state
Selecting == pc \in {"count", "sample", "retry", "clues", "lineart"}

\* generateForMode has just returned a failure with the message err
FailedWith(err) ==
  /\ pc = "loop"
  /\ attemptRec.outcome = "failed"
  /\ Len(results) > 0
  /\ results[Len(results)] = Failure(modeId, err)

\* the ids rejected for lacking trivia in this category attempt
Rejected == excludeIds \ usedIds

\* C1: a candidate that the selector returns is not in the exclusion set that
\* the Counting phase that produced it was given; the count query and every
\* sample query of the phase carry exactly that set in their exclusion filter.
C1_SelectedNotExcluded ==
  pc = "clues" =>
    /\ ship # NoShip
    /\ ship \notin excludeIds
    /\ countQuery.notIn = excludeIds
    /\ \A i \in 1..Len(sampleLog) : sampleLog[i].query.notIn = excludeIds

\* a candidate was selected while the exclusion set held two or more ids
C1_Witness ==
  /\ pc = "clues"
  /\ ship # NoShip
  /\ Cardinality(excludeIds) >= 2

C3_OffsetInRange ==
  /\ pc \in {"sample", "retry"} => (0 <= offset /\ offset < count)
  /\ \A i \in 1..Len(sampleLog) :
       /\ 0 <= sampleLog[i].query.offset
       /\ sampleLog[i].query.offset < count

\* a retry was sent at the last offset of a count above 1
C3_Witness ==
  /\ Len(sampleLog) = 2
  /\ count > 1
  /\ sampleLog[2].query.offset = count - 1

\* C4: when the count query returns 0 the selector reports Empty without a
\* sample query, and the generation of the category fails with nothing saved.
C4_ZeroCountIsEmpty ==
  count = 0 =>
    /\ FailedWith(ErrEmpty)
    /\ sampleLog = <<>>
    /\ drawLog = <<>>
    /\ ~attemptRec.saved

\* a count query answered 0 and the category has no row for the date
C4_Witness ==
  /\ count = 0
  /\ countQuery.kind = "count"
  /\ FailedWith(ErrEmpty)
  /\ ArtifactsOf(gameDate, modeId) = {}

(***************************************************************************)
(* Properties of the trivia loop of generateForMode.                       *)
(***************************************************************************)
\* fetchClues has answered and the candidate is not kept
Rejection == pc = "clues" /\ pc' # "lineart"

\* C5 as stated: whenever a selected candidate lacks trivia in a category
\* that requires it, its id is added to the exclusion set and the selector
\* restarts at Counting.
C5_RejectionRestarts ==
  [][Rejection =>
       /\ excludeIds' = excludeIds \cup {ship}
       /\ pc' = "count"]_vars

\* C5 amended: a rejected candidate's id is added to the exclusion set; the
\* selector restarts at Counting unless the rejection was that of the
\* attempt number MAX_RETRIES, after which generateForMode fails; after a
\* restart the count query and the sample queries exclude every rejected id.
C5_RejectionRestartsOrExhausts ==
  /\ [][Rejection =>
          /\ requireTrivia(modeId)
          /\ ship \notin excludeIds
          /\ excludeIds' = excludeIds \cup {ship}
          /\ IF attempt < MAX_RETRIES
               THEN pc' = "count" /\ attempt' = attempt + 1
               ELSE /\ pc' = "loop"
                    /\ results' = Append(results, Failure(modeId, ErrExhausted))
        ]_vars
  /\ [](pc \in {"sample", "retry", "clues"} =>
          /\ Rejected \subseteq countQuery.notIn
          /\ \A i \in 1..Len(sampleLog) :
               Rejected \subseteq sampleLog[i].query.notIn)

\* the selector was restarted after every rejection up to the last attempt
C5_Witness ==
  /\ pc = "clues"
  /\ attempt = MAX_RETRIES
  /\ Cardinality(Rejected) = MAX_RETRIES - 1
  /\ Rejected \subseteq countQuery.notIn
  /\ ship \notin Rejected

\* C6: a category attempt makes at most MAX_RETRIES = 10 selection attempts;
\* when the tenth candidate is rejected too the attempt fails for good, with
\* a message that is not the one of Empty.
C6_LoopBounded ==
  /\ attempt <= MAX_RETRIES
  /\ clueCalls <= attempt
  /\ Cardinality(Rejected) <= MAX_RETRIES
  /\ ErrExhausted # ErrEmpty
  /\ FailedWith(ErrExhausted) =>
       /\ requireTrivia(modeId)
       /\ attempt = MAX_RETRIES
       /\ clueCalls = MAX_RETRIES
       /\ Cardinality(Rejected) = MAX_RETRIES
  /\ FailedWith(ErrEmpty) => clueCalls < attempt
  /\ (pc = "loop" /\ attemptRec.outcome = "failed"
        /\ Cardinality(Rejected) = MAX_RETRIES) => FailedWith(ErrExhausted)

\* ten candidates were rejected and the attempt failed as exhausted
C6_Witness ==
  /\ FailedWith(ErrExhausted)
  /\ clueCalls = MAX_RETRIES
  /\ ArtifactsOf(gameDate, modeId) = {}

\* trivia is required, three candidates were rejected and the fourth kept
FourthKept ==
  /\ pc = "lineart"
  /\ requireTrivia(modeId)
  /\ attempt = 4

\* C7 as stated: in that case exactly 4 requests went to the summary
\* endpoint, the first three ids are in the exclusion set, and the output
\* is that of the fourth candidate.
C7_FourFetches ==
  /\ FourthKept =>
       /\ fetches = 4
       /\ Cardinality(Rejected) = 3
       /\ ship \notin excludeIds
       /\ trivia # "null"
  /\ pc = "mark" => ArtifactsOf(gameDate, modeId) = {ship}

\* C7 amended: in that case fetchClues was called exactly 4 times and sent
\* one summary request for each of the four candidates that has an article
\* (a candidate without one is rejected without a request); the first three
\* ids are in the exclusion set, and the output is that of the fourth.
C7_FourCluesCalls ==
  /\ FourthKept =>
       /\ clueCalls = 4
       /\ fetches = Cardinality({e \in Rejected \cup {ship} : HasArticle(e)})
       /\ fetches <= 4
       /\ Cardinality(Rejected) = 3
       /\ Rejected \subseteq excludeIds
       /\ ship \notin excludeIds
       /\ HasArticle(ship)
       /\ trivia # "null"
  /\ pc = "mark" => ArtifactsOf(gameDate, modeId) = {ship}

\* the fourth candidate was kept after a candidate without article was
\* rejected
C7_Witness ==
  /\ FourthKept
  /\ clueCalls = 4
  /\ fetches < 4

(***************************************************************************)
(* Properties of what is persisted.                                        *)
(***************************************************************************)
\* C10: whenever a category attempt is reported as failed, be it by a failed
\* result or by the 500 answer of the handler, no row of that attempt was
\* written to game_data.
C10_AllOrNothing ==
  attemptRec.outcome \in {"failed", "threw"} => ~attemptRec.saved

\* C8: the exclusion set of a category only grows: no id leaves the stored
\* set (table used_ships, file used-ships-{mode}.json) nor the excludeIds of
\* a running attempt; an id enters the stored set only as the ship of an
\* attempt whose output was written, and excludeIds only by a rejection.
C8_AppendOnly ==
  [][/\ \A m \in ModeIds :
          /\ used_ships[m] \subseteq used_ships'[m]
          /\ usedFile[m] \subseteq usedFile'[m]
          /\ (used_ships'[m] \ used_ships[m]) \cup (usedFile'[m] \ usedFile[m])
               \subseteq {e \in {ship} : m = modeId /\ attemptRec.saved}
     /\ (Selecting /\ pc' \in {"count", "sample", "retry", "clues"}) =>
          /\ excludeIds \subseteq excludeIds'
          /\ excludeIds' # excludeIds =>
               (Rejection /\ excludeIds' \ excludeIds = {ship})
    ]_vars

\* C9: a candidate that a successful generation used as the answer of a
\* category is never selected again by a generation of that category.
C9_NoRepeats ==
  pc = "clues" => ship \notin served[modeId]

(***************************************************************************)
(* Properties of the image pipeline.                                       *)
(***************************************************************************)
\* C11: whenever the segmentation service fails, by a non-2xx answer (quota
\* exceeded included) or by a request that does not complete, the edges are
\* taken from the normalized image and the attempt does not fail for it.
C11_SegmentationFailureIsSoft ==
  artLog.seg \in {"non2xx", "rejected"} =>
    /\ artLog.input = "normalized"
    /\ ~FailedWith(ErrLineArt)

\* C13: when the download of the reference image fails the category attempt
\* ends as failed, no row of it is in game_data and its ship is not in
\* used_ships.
C13_DownloadFailureIsFatal ==
  artLog.download \in {"non2xx", "rejected"} =>
    /\ FailedWith(ErrLineArt)
    /\ ship # NoShip
    /\ ~attemptRec.saved
    /\ ArtifactsOf(gameDate, modeId) = {}
    /\ ship \notin used_ships[modeId]

\* the image host answered a non-2xx status and the attempt failed
C13_Witness ==
  /\ artLog.download = "non2xx"
  /\ FailedWith(ErrLineArt)
  /\ ship # NoShip

(***************************************************************************)
(* Properties of the failures of the knowledge-graph queries.              *)
(***************************************************************************)
\* C12: when a count or sample query fails in transport the category
\* attempt is aborted and the caller is told (500), and the query had been
\* sent again at least once before that.
C12_QueryFailureAfterRetries ==
  (attemptRec.outcome = "threw" /\ attemptRec.sent > 0) =>
    /\ pc = "idle"
    /\ response.status = 500
    /\ ~response.success
    /\ ~attemptRec.saved
    /\ attemptRec.sent > 1


(***************************************************************************)
(* Properties of the tables across categories.                             *)
(***************************************************************************)
\* the rows of game_data of one category
ArtifactRows(rows, m) == {r \in rows : r.mode = m}

C15_OneRowPerDateAndMode ==
  /\ [](\A r1, r2 \in game_data :
          (r1.game_date = r2.game_date /\ r1.mode = r2.mode) => r1 = r2)
  /\ [][\A r \in game_data :
          (r.mode # modeId \/ r.game_date # gameDate) => r \in game_data']_vars

\* a date is generated again for a category: the earlier ship of the category
\* has lost its row to the new one while another category keeps its row for
\* the same date
C15_Witness ==
  /\ pc = "mark"
  /\ ArtifactsOf(gameDate, modeId) = {ship}
  /\ \E a \in served[modeId] \ {ship} :
       \A r \in game_data : ~(r.mode = modeId /\ r.ship_id = a)
  /\ \E m \in ModeIds \ {modeId} : ArtifactsOf(gameDate, m) # {}

(***************************************************************************)
(* Properties of the pixel loop.                                           *)
(***************************************************************************)
\* C18: after the loop body a pixel is either fully transparent (all four
\* bytes zero) or ink (black with a non-zero opacity), and a pixel whose alpha
\* does not exceed 128 is fully transparent whatever its edge value is.
C18_TransparentOrInk ==
  unitPc = "painted" =>
    /\ \/ rgba = NoPixel
       \/ rgba[1] = 0 /\ rgba[2] = 0 /\ rgba[3] = 0 /\ rgba[4] > 0
    /\ origAlpha <= 128 => rgba = NoPixel

\* the strongest edge on a pixel at the alpha threshold stays transparent
C18_Witness ==
  /\ unitPc = "painted"
  /\ origAlpha = 128
  /\ edgeVal = 0
  /\ rgba = NoPixel

\* C19: a pixel whose alpha exceeds 128 and whose edge value is below 180 gets
\* the opacity min(255, (180 - edge) * 2), a pixel at 180 or above gets none,
\* and no lower edge value with the same alpha gives a lower opacity.
C19_OpacityMonotone ==
  (unitPc = "painted" /\ origAlpha > 128) =>
    /\ rgba[4] = IF edgeVal >= 180 THEN 0
                 ELSE IF (180 - edgeVal) * 2 > 255 THEN 255
                 ELSE (180 - edgeVal) * 2
    /\ \A e \in Bytes : e <= edgeVal => pixel(origAlpha, e)[4] >= rgba[4]

\* an ink pixel below full opacity
C19_Witness ==
  /\ unitPc = "painted"
  /\ origAlpha > 128
  /\ edgeVal = 100
  /\ rgba = <<0, 0, 0, 160>>

(***************************************************************************)
(* Properties of parseShipResult.                                          *)
(***************************************************************************)
\* the rows in another order
Reordered(rows, p) == [i \in 1..Len(rows) |-> rows[p[i]]]

\* the values of a sequence
Values(seq) == {seq[i] : i \in 1..Len(seq)}

\* C16: the conflicts of the candidate parsed from K rows are the conflict
\* labels bound in any of the K rows, each of them once, and every order of
\* the rows gives the same set of them.
C16_ConflictsAreUnion ==
  unitPc = "parsed" =>
    /\ Values(selected.conflicts) =
         {results_[i].conflictLabel : i \in 1..Len(results_)} \ {<<>>}
    /\ Cardinality(Values(selected.conflicts)) = Len(selected.conflicts)
    /\ \A p \in Permutations(1..Len(results_)) :
         Values(conflicts(Reordered(results_, p))) = Values(selected.conflicts)

\* three rows, one label bound twice and another one once, not in the first
\* row
C16_Witness ==
  /\ unitPc = "parsed"
  /\ Len(results_) = 3
  /\ results_[1].conflictLabel = <<>>
  /\ results_[2].conflictLabel = GulfWar
  /\ results_[3].conflictLabel = GulfWar
  /\ selected.conflicts = <<GulfWar>>

\* C20: the status is the status label of the first row when it has one;
\* otherwise the text with the decommissioning year when the first row has a
\* date; otherwise 'Active or recently active' when a conflict label of any
\* row names a recent conflict; otherwise there is none.
C20_StatusPriority ==
  unitPc = "parsed" =>
    LET first == results_[1] IN
    /\ first.statusLabel # "null" =>
         selected.status = [text |-> first.statusLabel, year |-> NoYear]
    /\ (first.statusLabel = "null" /\ first.decommissioned # NoDate) =>
         /\ selected.status.text = "Decommissioned"
         /\ selected.status.year = selected.decommissioned
         /\ selected.decommissioned \in
              {first.decommissioned.year, first.decommissioned.year - 1}
    /\ (first.statusLabel = "null" /\ first.decommissioned = NoDate) =>
         selected.status.year = NoYear /\ selected.status.text =
           IF \E i \in 1..Len(results_) :
                results_[i].conflictLabel \in {GulfWar, IraqWar}
             THEN "Active or recently active"
             ELSE "null"

\* a first row with a status label and a decommissioning date, and a recent
\* conflict in a later row: the label is the status
C20_Witness ==
  /\ unitPc = "parsed"
  /\ Len(results_) = 2
  /\ results_[1].statusLabel = "in service"
  /\ results_[1].decommissioned # NoDate
  /\ results_[2].conflictLabel = IraqWar
  /\ selected.status.text = "in service"

(***************************************************************************)
(* Properties of the pair of queries.                                      *)
(***************************************************************************)
\* C17: the candidate that a sample query returns is the one at the query's
\* zero-based offset among the entities that the count query counts, in the
\* order of the labels: it is in the count query's selection, read from some
\* snapshot of the graph, and exactly offset entities of that selection come
\* before it.
C17_SampleIsCountedEntityAtOffset ==
  (pc = "clues" /\ sampleLog # <<>>) =>
    LET q == sampleLog[Len(sampleLog)].query IN
    \E g \in Snapshots(graph) :
      /\ Matches(q, g) = Matches(countQuery, g)
      /\ ship \in Matches(countQuery, g)
      /\ Cardinality({e \in Matches(countQuery, g) : e < ship}) = q.offset

(***************************************************************************)
(* Properties of the failures of an attempt.                               *)
(***************************************************************************)
\* C21: in a category other than main, for which the handler does not
\* require trivia, fetchClues is followed by the line art step with the same
\* candidate, and when the summary request failed the trivia of the candidate
\* that goes on is null.
C21_SummaryFailureIsSoft ==
  /\ []((modeId \in ModeIds \ {"main"} /\ summaryLog = "null") =>
          /\ trivia = "null"
          /\ ship # NoShip
          /\ pc \in {"lineart", "save", "mark", "loop"})
  /\ [][(pc = "clues" /\ modeId \in ModeIds \ {"main"}) =>
          (pc' = "lineart" /\ ship' = ship)]_vars

\* the artifact of a candidate whose summary request failed is saved, in a
\* category other than main
C21_Witness ==
  /\ pc = "mark"
  /\ modeId \in ModeIds \ {"main"}
  /\ summaryLog = "null"
  /\ trivia = "null"
  /\ ArtifactsOf(gameDate, modeId) = {ship}

\* the attempt count that the text of a failure names, if any
AttemptsNamed(err) == IF err = ErrExhausted THEN MAX_RETRIES ELSE NoCount

\* C22 as stated: a failed category attempt is reported with its category and
\* with the count of the attempt at which it failed, and so is one that ended
\* in an error.
C22_FailureReportsAttempt ==
  /\ (pc = "loop" /\ attemptRec.outcome = "failed" /\ attempt > 0) =>
       /\ results[Len(results)].mode = attemptRec.mode
       /\ AttemptsNamed(results[Len(results)].error) = attempt
  /\ attemptRec.outcome = "threw" =>
       \E i \in 1..Len(response.results) :
         response.results[i].mode = attemptRec.mode

(***************************************************************************)
(* Properties of repeated pipeline runs.                                   *)
(***************************************************************************)
\* two runs of one category at one offset over the snapshot
SameInputs(a, b) == a.mode = b.mode /\ a.offset = b.offset

\* the segmentation service answered 2xx
Segmented(a) == a.met.seg = "ok"

AttemptFails ==
  /\ attemptRec.outcome \notin {"failed", "threw"}
  /\ attemptRec'.outcome \in {"failed", "threw"}

\* C27 as stated: when several categories are requested in one run, the
\* failure of a category attempt, be it a failed result or a raised error,
\* leaves the remaining requested categories to be generated.
C27_FailureKeepsRemaining ==
  [][AttemptFails => modesToGenerate' = modesToGenerate]_vars

\* C28 as stated: at the end of every category attempt, the used set of the
\* category holds the id of every artifact the attempt persisted for it.
C28_PersistedIsUsed ==
  (attemptRec.outcome \in {"success", "failed", "threw"} /\ attemptRec.saved)
    => ArtifactsOf(gameDate, attemptRec.mode) \subseteq used_ships[attemptRec.mode]

(***************************************************************************)
(* Properties of the game in the browser.                                  *)
(***************************************************************************)
\* the last guess
LastGuess == guessResults[Len(guessResults)]

\* a guess is accepted in this step: the list grows in the game shown
GuessAccepted ==
  /\ gameData # NoAircraft
  /\ gameData' = gameData
  /\ currentMode' = currentMode
  /\ Len(guessResults') > Len(guessResults)

\* C24: a game allows at most 5 guesses; with the data loaded it has ended
\* exactly when a guess was correct, which is a win, or the fifth guess was
\* made; and no guess is accepted after the game has ended.
C24_FiveGuesses ==
  /\ [](/\ Len(guessResults) <= totalTurns
        /\ gameData # NoAircraft =>
             /\ isGameComplete <=>
                  /\ guessResults # <<>>
                  /\ LastGuess = "correct" \/ Len(guessResults) = totalTurns
             /\ isWin <=> (guessResults # <<>> /\ LastGuess = "correct"))
  /\ [][GuessAccepted =>
          /\ ~isGameComplete
          /\ guessResults' = Append(guessResults, guessResults'[Len(guessResults')])
       ]_vars

\* a game lost with the fifth guess
C24_Witness ==
  /\ gameData # NoAircraft
  /\ isGameComplete
  /\ ~isWin
  /\ Len(guessResults) = totalTurns
  /\ \A i \in 1..totalTurns : guessResults[i] = "wrong"

\* the game is in progress: the data is loaded and the game has not ended
InProgress == gameData # NoAircraft /\ ~isGameComplete

\* C25: while a game is in progress, on turn t the clue scheduled for turn k
\* (specifications 2, context 3, trivia 4, photograph 5) is revealed if and
\* only if k <= t; on turn 1 no clue is revealed.
C25_ClueSchedule ==
  InProgress =>
    /\ \A k \in 2..totalTurns : revealed(k) <=> k <= currentTurn
    /\ currentTurn = 1 => \A k \in 2..totalTurns : ~revealed(k)

\* turn 3 of a game in progress: specifications and context are revealed,
\* trivia and photograph are not
C25_Witness ==
  /\ InProgress
  /\ currentTurn = 3
  /\ revealed(2) /\ revealed(3)
  /\ ~revealed(4) /\ ~revealed(5)

\* C26 as stated: mode completion resets daily: a completion recorded on day
\* D is not reported as complete on a later day, and is not in the stored item
\* under a later date.
C26_ResetsDaily ==
  \A m \in AppModeIds :
    /\ completion.modes[m] # NoResult => recordedOn[m] = today
    /\ localStorage.modes[m] # NoResult => recordedOn[m] = localStorage.date

\* C29 as stated: whenever a game of a mode ends, by a win or by a loss, the
\* result stored for the mode in local storage is the result of that game,
\* with the aircraft id of that game.
C29_EndedGameIsStored ==
  [][(/\ gameData # NoAircraft
      /\ gameData' = gameData
      /\ currentMode' = currentMode
      /\ ~isGameComplete
      /\ isGameComplete')
     => localStorage'.modes[currentMode] =
          [isWin |-> isWin', guessResults |-> guessResults',
           aircraftId |-> gameData]]_vars

=============================================================================
